---- MODULE Spec2Model ----
(***************************************************************************)
(* A model of gmso.core.virtual_site.VirtualSite: one virtual site, the    *)
(* real sites it may take as parents, and the VirtualType objects it may   *)
(* reference; and a second virtual site, twin, over the same real sites    *)
(* and types, whose position() is compared with the first site's.          *)
(*                                                                         *)
(* Conventions.  An Optional[...] value is a sequence of length 0 (None)   *)
(* or 1 (the value).  A Python str is a sequence of one-character strings. *)
(* Coordinates are integers in units of 1/4 nm and expression weights are  *)
(* integers in units of 1/4, so (2,0,0) nm is <<8,0,0>> and 0.75 is 3.     *)
(* A Python list object is a cell of the heap `lists`; a reference to the  *)
(* list is the cell's index.  What an attribute assignment does is decided  *)
(* by the base class the site is built on, which `base` names for the      *)
(* whole life of the site.                                                 *)
(***************************************************************************)
EXTENDS Integers, Sequences, FiniteSets, TLC

VARIABLES twin, twinOutcome, base, name, lists, parent_sites_, charge_,
          virtual_type_, atomPos, held, assigned, outcome, lastCall

vars == <<twin, twinOutcome, base, name, lists, parent_sites_, charge_,
          virtual_type_, atomPos, held, assigned, outcome, lastCall>>

(* ------------------------------ bounds -------------------------------- *)

\* longest parent-site list the model builds
MaxParents == 2

(* --------------------------- input universe --------------------------- *)

None == <<>>

Some(x) == <<x>>

\* the real sites of the topology
Atoms == {"a", "b"}

\* the positions a real site may take: the origin and (2,0,0) nm
Positions == {<<0, 0, 0>>, <<8, 0, 0>>}

\* explicit charge overrides a caller may assign (elementary charges)
Charges == {0, 1}

\* the base classes a site may be built on:
\*   "gmso"      assignment validates (a list is copied) and an alias of
\*               model_config is redirected to its field; assignment under a
\*               field's own name succeeds with a warning
\*   "validate"  assignment validates; an alias is not redirected
\*   "plain"     assignment neither validates nor redirects
Bases == {"gmso", "validate", "plain"}

\* the callables a caller may store in the field position_
Callables == {"f"}

\* names a caller may give the virtual site
Names == {<<"v">>, <<"v", "s">>}

\* the VirtualType objects of the topology: virtual_position is the list of
\* weights of r_i, r_j, r_k, ... in the position expression, when there is one
VirtualTypes ==
    [t \in {"bare", "mid", "lean", "tri"} |->
        CASE t = "bare" -> [virtual_position |-> None, charge |-> Some(2)]
          [] t = "mid"  -> [virtual_position |-> Some(<<2, 2>>), charge |-> None]
          [] t = "lean" -> [virtual_position |-> Some(<<3, 1>>), charge |-> Some(2)]
          [] t = "tri"  -> [virtual_position |-> Some(<<1, 1, 2>>), charge |-> None]]

TypeNames == DOMAIN VirtualTypes

RECURSIVE SeqsUpTo(_, _)
SeqsUpTo(S, n) ==
    IF n = 0 THEN {<<>>}
    ELSE LET shorter == SeqsUpTo(S, n - 1)
         IN  shorter \cup {Append(s, x) : s \in shorter, x \in S}

\* the parent-site lists a caller may build
ParentSeqs == SeqsUpTo(Atoms, MaxParents)

\* the two heap cells a list of the site can live in
ListIds == {1, 2}

(* ------------------------- results of a call -------------------------- *)

Raise(e) == [kind |-> "raise", err |-> e, value |-> <<>>]

Return(v) == [kind |-> "return", err |-> "", value |-> v]

Called(op, r) == [op |-> op, kind |-> r.kind, err |-> r.err, value |-> r.value]

NoOp == [op |-> "init", kind |-> "return", err |-> "", value |-> <<>>]

(* ------------------------------ accessors ----------------------------- *)

\* the parent_sites property: the list object stored under "parent_sites_"
parent_sites == parent_sites_

\* the virtual_type property
virtual_type == virtual_type_

\* the items of the list the site stores
parents == lists[parent_sites]

\* the current positions of the stored parents, in list order
parentPositions == [k \in 1..Len(parents) |-> atomPos[parents[k]]]

(* ------------------------------ position() ---------------------------- *)

\* the site as position() sees it: self, with the fields of lines 27-43; the
\* field position_ keeps its default
Self ==
    [name |-> name, parent_sites_ |-> parents, charge_ |-> charge_,
     position_ |-> None, virtual_type_ |-> virtual_type]

\* position() testing the expression before the type: with no type the
\* attribute lookup on None fails
position_swapped(self) ==
    IF self.virtual_type_ # None
       /\ VirtualTypes[self.virtual_type_[1]].virtual_position = None
    THEN Raise("MissingPotentialError")
    ELSE IF self.virtual_type_ = None
    THEN Raise("AttributeError")
    ELSE Raise("NotYetImplementedWarning")

\* position() without the test of virtual_type.virtual_position
position_unchecked(self) ==
    IF self.virtual_type_ = None
    THEN Raise("MissingPotentialError")
    ELSE Raise("NotYetImplementedWarning")

\* position() answering with the callable of the field position_ when the
\* site has one
position_field(self) ==
    IF self.position_ # None
    THEN Return(<<0, 0, 0>>)
    ELSE IF self.virtual_type_ = None
    THEN Raise("MissingPotentialError")
    ELSE IF VirtualTypes[self.virtual_type_[1]].virtual_position = None
    THEN Raise("MissingPotentialError")
    ELSE Raise("NotYetImplementedWarning")

\* VirtualSite.position: self.virtual_type is the stored virtual_type_
position(self) ==
    IF self.virtual_type_ = None
    THEN Raise("MissingPotentialError")
    ELSE IF VirtualTypes[self.virtual_type_[1]].virtual_position = None
    THEN Raise("MissingPotentialError")
    ELSE Raise("NotYetImplementedWarning")

(* ------------------------------ __repr__ ------------------------------ *)

\* the representation of a real site
AtomRepr(a) == <<a>>

RECURSIVE Join(_, _)
\* str.join: sep.join(items)
Join(sep, items) ==
    IF Len(items) = 0 THEN <<>>
    ELSE IF Len(items) = 1 THEN items[1]
    ELSE items[1] \o sep \o Join(sep, Tail(items))

\* VirtualSite.__repr__
Repr(n, ps) ==
    n \o Join(<<":", " ", "-">>, [k \in 1..Len(ps) |-> AtomRepr(ps[k])])

(* ------------------------------- actions ------------------------------ *)

\* a site as constructed with a name and nothing else
Fresh(n) ==
    [name |-> n, parent_sites_ |-> <<>>, charge_ |-> None,
     position_ |-> None, virtual_type_ |-> None]

Init ==
    /\ twin = Fresh(<<"w">>)
    /\ twinOutcome = NoOp
    /\ base \in Bases
    /\ name \in Names
    /\ lists = [c \in ListIds |-> <<>>]
    /\ parent_sites_ = 1
    /\ charge_ = None
    /\ virtual_type_ = None
    /\ atomPos = [a \in Atoms |-> <<0, 0, 0>>]
    /\ held = 0
    /\ assigned = <<>>
    /\ outcome = NoOp
    /\ lastCall = None

\* the site stores a new list object with the items ps; a list the caller
\* holds is left as it is
StoreCopy(ps) ==
    LET target == IF held = parent_sites_ THEN 3 - parent_sites_
                  ELSE parent_sites_
    IN  /\ lists' = [lists EXCEPT ![target] = ps]
        /\ parent_sites_' = target
        /\ assigned' = ps
        /\ UNCHANGED held

\* the site stores the caller's list object itself, which the caller keeps
\* holding in place of any list it held before
StoreSame(ps) ==
    LET target == 3 - parent_sites_
    IN  /\ lists' = [c \in ListIds |-> IF c = target THEN ps ELSE <<>>]
        /\ parent_sites_' = target
        /\ assigned' = ps
        /\ held' = target

\* site.parent_sites = ps: redirected to the field parent_sites_ where the base
\* redirects aliases; elsewhere parent_sites is a property without a setter
SetParentSites ==
    \E ps \in ParentSeqs :
        IF base = "gmso"
        THEN /\ StoreCopy(ps)
             /\ outcome' = Called("set_parent_sites", Return(<<>>))
             /\ UNCHANGED <<twin, twinOutcome, base, name, charge_, virtual_type_, atomPos, lastCall>>
        ELSE /\ outcome' = Called("set_parent_sites", Raise("AttributeError"))
             /\ UNCHANGED <<twin, twinOutcome, base, name, lists, parent_sites_, charge_,
                            virtual_type_, atomPos, held, assigned, lastCall>>

\* site.parent_sites_ = L, L a list the caller built: a validating base stores
\* a copy of L, a plain one stores L itself
SetParentSitesField ==
    \E ps \in ParentSeqs :
        /\ IF base = "plain" THEN StoreSame(ps) ELSE StoreCopy(ps)
        /\ outcome' = Called("set_parent_sites_", Return(<<>>))
        /\ UNCHANGED <<twin, twinOutcome, base, name, charge_, virtual_type_, atomPos, lastCall>>

\* site.charge = q (q may be None): redirected to the field charge_ where the
\* base redirects aliases; elsewhere the class has nothing named charge
SetCharge ==
    \E q \in {None} \cup {Some(c) : c \in Charges} :
        /\ charge_' = IF base = "gmso" THEN q ELSE charge_
        /\ outcome' = Called("set_charge",
                             IF base = "gmso" THEN Return(<<>>)
                             ELSE Raise("ValueError"))
        /\ UNCHANGED <<twin, twinOutcome, base, name, lists, parent_sites_, virtual_type_, atomPos,
                       held, assigned, lastCall>>

\* site.charge_ = q (q may be None)
SetChargeField ==
    \E q \in {None} \cup {Some(c) : c \in Charges} :
        /\ charge_' = q
        /\ outcome' = Called("set_charge_", Return(<<>>))
        /\ UNCHANGED <<twin, twinOutcome, base, name, lists, parent_sites_, virtual_type_, atomPos,
                       held, assigned, lastCall>>

\* site.virtual_type = t (t may be None): redirected to the field
\* virtual_type_ where the base redirects aliases; elsewhere virtual_type is a
\* property without a setter
SetVirtualType ==
    \E t \in {None} \cup {Some(n) : n \in TypeNames} :
        /\ virtual_type_' = IF base = "gmso" THEN t ELSE virtual_type_
        /\ outcome' = Called("set_virtual_type",
                             IF base = "gmso" THEN Return(<<>>)
                             ELSE Raise("AttributeError"))
        /\ UNCHANGED <<twin, twinOutcome, base, name, lists, parent_sites_, charge_, atomPos,
                       held, assigned, lastCall>>

\* site.virtual_type_ = t (t may be None)
SetVirtualTypeField ==
    \E t \in {None} \cup {Some(n) : n \in TypeNames} :
        /\ virtual_type_' = t
        /\ outcome' = Called("set_virtual_type_", Return(<<>>))
        /\ UNCHANGED <<twin, twinOutcome, base, name, lists, parent_sites_, charge_, atomPos,
                       held, assigned, lastCall>>

\* a real site moves; what the twin's last call returned is no longer the
\* result of a call on the present positions
MoveParent ==
    \E a \in Atoms, p \in Positions :
        /\ atomPos[a] # p
        /\ atomPos' = [atomPos EXCEPT ![a] = p]
        /\ outcome' = Called("move", Return(<<>>))
        /\ twinOutcome' = NoOp
        /\ UNCHANGED <<twin, base, name, lists, parent_sites_, charge_,
                       virtual_type_, held, assigned, lastCall>>

\* a position() call that empties the stored parent list
PositionClearing ==
    /\ outcome' = Called("position", position(Self))
    /\ lists' = [lists EXCEPT ![parent_sites_] = <<>>]
    /\ UNCHANGED <<twin, twinOutcome, base, name, parent_sites_, charge_, virtual_type_, atomPos,
                   held, assigned, lastCall>>

\* a caller calls site.position()
Position ==
    /\ outcome' = Called("position", position(Self))
    /\ UNCHANGED <<twin, twinOutcome, base, name, lists, parent_sites_, charge_, virtual_type_, atomPos,
                   held, assigned, lastCall>>

\* a caller calls site.position() and keeps, in lastCall, the result together
\* with the inputs of the call
PositionKept ==
    /\ outcome' = Called("position", position(Self))
    /\ lastCall' = Some([vt |-> virtual_type, ps |-> parents,
                         pos |-> parentPositions,
                         result |-> position(Self)])
    /\ UNCHANGED <<twin, twinOutcome, base, name, lists, parent_sites_, charge_, virtual_type_, atomPos,
                   held, assigned>>

\* a caller reads the site's charge: the stored field
ReadCharge ==
    /\ outcome' = Called("charge", Return(charge_))
    /\ UNCHANGED <<twin, twinOutcome, base, name, lists, parent_sites_, charge_, virtual_type_, atomPos,
                   held, assigned, lastCall>>

\* a caller calls repr(site)
CallRepr ==
    /\ outcome' = Called("repr", Return(Repr(name, parents)))
    /\ UNCHANGED <<twin, twinOutcome, base, name, lists, parent_sites_, charge_, virtual_type_, atomPos,
                   held, assigned, lastCall>>

\* the heap once the caller lets go of the list it holds: a list nobody
\* references any more is collected
Released ==
    IF held # 0 /\ held # parent_sites_
    THEN [lists EXCEPT ![held] = <<>>]
    ELSE lists

\* a caller reads site.parent_sites and keeps what it returns
GetParentSites ==
    /\ held' = parent_sites
    /\ lists' = Released
    /\ outcome' = Called("parent_sites", Return(<<parent_sites>>))
    /\ UNCHANGED <<twin, twinOutcome, base, name, parent_sites_, charge_, virtual_type_, atomPos,
                   assigned, lastCall>>

\* the caller forgets the list it holds
DropView ==
    /\ held # 0
    /\ held' = 0
    /\ lists' = Released
    /\ outcome' = Called("drop", Return(<<>>))
    /\ UNCHANGED <<twin, twinOutcome, base, name, parent_sites_, charge_, virtual_type_, atomPos,
                   assigned, lastCall>>

\* the caller appends to the list it holds
ViewAppend ==
    \E a \in Atoms :
        /\ held # 0
        /\ Len(lists[held]) < MaxParents
        /\ lists' = [lists EXCEPT ![held] = Append(@, a)]
        /\ outcome' = Called("view_append", Return(<<>>))
        /\ UNCHANGED <<twin, twinOutcome, base, name, parent_sites_, charge_, virtual_type_, atomPos,
                       held, assigned, lastCall>>

\* the caller pops the last item of the list it holds
ViewPop ==
    /\ held # 0
    /\ Len(lists[held]) > 0
    /\ lists' = [lists EXCEPT ![held] = SubSeq(@, 1, Len(@) - 1)]
    /\ outcome' = Called("view_pop", Return(<<>>))
    /\ UNCHANGED <<twin, twinOutcome, base, name, parent_sites_, charge_, virtual_type_, atomPos,
                   held, assigned, lastCall>>

\* the caller reverses the list it holds
ViewReverse ==
    /\ held # 0
    /\ lists' = [lists EXCEPT ![held] =
                    [k \in 1..Len(@) |-> @[Len(@) + 1 - k]]]
    /\ outcome' = Called("view_reverse", Return(<<>>))
    /\ UNCHANGED <<twin, twinOutcome, base, name, parent_sites_, charge_, virtual_type_, atomPos,
                   held, assigned, lastCall>>

(* ------------------------------ the twin ------------------------------ *)

\* twin.parent_sites_ = ps; the caller keeps no reference to the list
TwinSetParentSitesField ==
    \E ps \in ParentSeqs :
        /\ twin' = [twin EXCEPT !.parent_sites_ = ps]
        /\ twinOutcome' = NoOp
        /\ UNCHANGED <<base, name, lists, parent_sites_, charge_, virtual_type_,
                       atomPos, held, assigned, outcome, lastCall>>

\* twin.charge_ = q (q may be None)
TwinSetChargeField ==
    \E q \in {None} \cup {Some(c) : c \in Charges} :
        /\ twin' = [twin EXCEPT !.charge_ = q]
        /\ twinOutcome' = NoOp
        /\ UNCHANGED <<base, name, lists, parent_sites_, charge_, virtual_type_,
                       atomPos, held, assigned, outcome, lastCall>>

\* twin.virtual_type_ = t (t may be None)
TwinSetVirtualTypeField ==
    \E t \in {None} \cup {Some(n) : n \in TypeNames} :
        /\ twin' = [twin EXCEPT !.virtual_type_ = t]
        /\ twinOutcome' = NoOp
        /\ UNCHANGED <<base, name, lists, parent_sites_, charge_, virtual_type_,
                       atomPos, held, assigned, outcome, lastCall>>

\* twin.position_ = f (f may be None): the field is a Callable and not
\* Optional, so a validating base rejects None and the twin keeps what it has
TwinSetPositionField ==
    \E f \in {None} \cup {Some(c) : c \in Callables} :
        /\ IF f = None /\ base # "plain"
           THEN /\ twinOutcome' = Called("set_position_", Raise("ValidationError"))
                /\ UNCHANGED twin
           ELSE /\ twin' = [twin EXCEPT !.position_ = f]
                /\ twinOutcome' = NoOp
        /\ UNCHANGED <<base, name, lists, parent_sites_, charge_, virtual_type_,
                       atomPos, held, assigned, outcome, lastCall>>

\* a caller calls twin.position()
TwinPosition ==
    /\ twinOutcome' = Called("position", position(twin))
    /\ UNCHANGED <<twin, base, name, lists, parent_sites_, charge_,
                   virtual_type_, atomPos, held, assigned, outcome, lastCall>>

Next ==
    \/ SetParentSites
    \/ SetParentSitesField
    \/ SetCharge
    \/ SetChargeField
    \/ SetVirtualType
    \/ SetVirtualTypeField
    \/ MoveParent
    \/ Position
    \/ PositionKept
    \/ ReadCharge
    \/ CallRepr
    \/ GetParentSites
    \/ DropView
    \/ ViewAppend
    \/ ViewPop
    \/ ViewReverse
    \/ TwinSetParentSitesField
    \/ TwinSetChargeField
    \/ TwinSetVirtualTypeField
    \/ TwinSetPositionField
    \/ TwinPosition

\* every operation, in any order; the specifications below each keep the
\* operations one group of properties is about
Spec == Init /\ [][Next]_vars

\* the operations position() reads from, and position()
NextPosition ==
    \/ SetParentSites
    \/ SetParentSitesField
    \/ SetCharge
    \/ SetChargeField
    \/ SetVirtualType
    \/ SetVirtualTypeField
    \/ MoveParent
    \/ Position

SpecPosition == Init /\ [][NextPosition]_vars

\* a caller that compares the results of successive position() calls
NextCalls ==
    \/ SetParentSites
    \/ SetVirtualType
    \/ MoveParent
    \/ PositionKept

\* the site as constructed on the "gmso" base, named "v"
InitCalls == Init /\ base = "gmso" /\ name = <<"v">>

SpecCalls == InitCalls /\ [][NextCalls]_vars

\* two sites whose position() results a caller compares
NextPair ==
    \/ SetParentSites
    \/ SetVirtualType
    \/ Position
    \/ TwinSetParentSitesField
    \/ TwinSetChargeField
    \/ TwinSetVirtualTypeField
    \/ TwinSetPositionField
    \/ TwinPosition

\* the first site as constructed on the "gmso" base, named "v"; the twin is
\* named "w"
InitPair == Init /\ base = "gmso" /\ name = <<"v">>

SpecPair == InitPair /\ [][NextPair]_vars

\* the site's stored data and its accessors
NextSite ==
    \/ SetParentSites
    \/ SetParentSitesField
    \/ SetCharge
    \/ SetChargeField
    \/ SetVirtualType
    \/ SetVirtualTypeField
    \/ ReadCharge
    \/ CallRepr
    \/ GetParentSites
    \/ DropView
    \/ ViewAppend
    \/ ViewPop
    \/ ViewReverse

SpecSite == Init /\ [][NextSite]_vars

(* ------------------------- the claims: position() --------------------- *)

\* the error kinds position() may signal
ErrorKinds ==
    {"MissingPotentialError", "ParentSiteMismatchError", "NotYetImplementedWarning"}

\* the site has a type and the type has a position expression
HasExpression ==
    /\ virtual_type_ # None
    /\ VirtualTypes[virtual_type_[1]].virtual_position # None

\* the weights of the position expression of the site's type
Weights == VirtualTypes[virtual_type_[1]].virtual_position[1]

RECURSIVE WeightedSum(_, _, _)
WeightedSum(w, pos, c) ==
    IF Len(w) = 0 THEN 0
    ELSE w[1] * pos[1][c] + WeightedSum(Tail(w), Tail(pos), c)

\* the expression with its k-th variable bound to the k-th position
Evaluate(w, pos) == [c \in 1..3 |-> WeightedSum(w, pos, c) \div 4]

\* C1: a position() call on a site with no virtual_type raises
\* MissingPotentialError, whatever the parent-site list is.
C1_MissingType ==
    (outcome.op = "position" /\ virtual_type_ = None)
        => (outcome.kind = "raise" /\ outcome.err = "MissingPotentialError")

C1_Witness ==
    /\ outcome.op = "position"
    /\ virtual_type_ = None
    /\ Len(parents) = 2
    /\ outcome.err = "MissingPotentialError"

\* C2: a position() call on a site whose virtual_type has no position
\* expression raises MissingPotentialError, whatever the parent-site list is.
C2_MissingExpression ==
    (/\ outcome.op = "position"
     /\ virtual_type_ # None
     /\ VirtualTypes[virtual_type_[1]].virtual_position = None)
        => (outcome.kind = "raise" /\ outcome.err = "MissingPotentialError")

C2_Witness ==
    /\ outcome.op = "position"
    /\ virtual_type_ = Some("bare")
    /\ Len(parents) = 1
    /\ outcome.err = "MissingPotentialError"

\* C3: a position() call on a site whose expression declares n variables and
\* whose parent-site list has a length other than n raises
\* ParentSiteMismatchError.
C3_Mismatch ==
    (/\ outcome.op = "position"
     /\ HasExpression
     /\ Len(parents) # Len(Weights))
        => (outcome.kind = "raise" /\ outcome.err = "ParentSiteMismatchError")

\* C4: a position() call on a site whose expression declares n variables and
\* that has exactly n parent sites returns the expression evaluated with the
\* k-th variable bound to the current position of the k-th parent.
C4_Evaluates ==
    (/\ outcome.op = "position"
     /\ HasExpression
     /\ Len(parents) = Len(Weights))
        => (/\ outcome.kind = "return"
            /\ outcome.value = Evaluate(Weights, parentPositions))

\* C7: a position() call, failing or not, leaves the stored parent-site list
\* (its identity, members and order), the virtual_type reference, the charge
\* override, the name and every real site's position as they were.
C7_Frame ==
    [][outcome'.op = "position"
          => UNCHANGED <<lists, parent_sites_, virtual_type_, charge_,
                         atomPos, name>>]_vars

C7_Witness ==
    /\ outcome.op = "position"
    /\ outcome.err = "NotYetImplementedWarning"
    /\ Len(parents) = 2
    /\ charge_ # None
    /\ atomPos["a"] # atomPos["b"]

\* C9: position() is live: a call made right after a parent site moved, when
\* an earlier call was made, returns the expression evaluated on the positions
\* the parents have at this call.
C9_Live ==
    [][(/\ lastCall # None
        /\ outcome.op = "move"
        /\ outcome'.op = "position"
        /\ HasExpression'
        /\ Len(parents') = Len(Weights'))
          => (/\ outcome'.kind = "return"
              /\ outcome'.value = Evaluate(Weights', parentPositions'))]_vars

\* an outcome of position() is a signalled failure carrying no value, or a
\* returned vector of three components
AllOrNothing(o) ==
    o.op = "position"
        => \/ /\ o.kind = "raise"
              /\ o.err \in ErrorKinds
              /\ o.value = <<>>
           \/ /\ o.kind = "return"
              /\ o.err = ""
              /\ Len(o.value) = 3
              /\ \A c \in 1..3 : o.value[c] \in Int

\* both sites hold the result of a position() call made on what they store
\* now, and they have the same virtual_type and the same ordered parent list
\* (so the same parent positions: the parents are the same real sites)
SameInputs ==
    /\ outcome.op = "position"
    /\ twinOutcome.op = "position"
    /\ twin.virtual_type_ = virtual_type_
    /\ twin.parent_sites_ = parents

\* C10: position() is deterministic and all-or-nothing: two sites with the same
\* virtual_type, the same ordered parent list and the same parent positions
\* get the same outcome from position(), the same vector or the same error
\* kind, whatever else differs between them (name, charge override, the field
\* position_, the list object); and every outcome is either a three-component
\* vector or a signalled failure.
C10_Deterministic ==
    /\ AllOrNothing(outcome)
    /\ AllOrNothing(twinOutcome)
    /\ SameInputs
          => /\ twinOutcome.kind = outcome.kind
             /\ twinOutcome.err = outcome.err
             /\ twinOutcome.value = outcome.value

C10_Witness ==
    /\ SameInputs
    /\ virtual_type_ = Some("lean")
    /\ Len(parents) = 2
    /\ parents[1] # parents[2]
    /\ twin.name # name
    /\ twin.charge_ # charge_
    /\ twin.position_ # None

(* --------------------- the claims: charge, repr, parents -------------- *)

\* the charge the precedence rule gives: the override, else the type's charge,
\* else None
ExpectedCharge ==
    IF charge_ # None THEN charge_
    ELSE IF virtual_type_ # None /\ VirtualTypes[virtual_type_[1]].charge # None
    THEN VirtualTypes[virtual_type_[1]].charge
    ELSE None

\* C5: the charge read from the site is the override when one is set, else
\* the virtual_type's charge when there is one, else undefined.
C5_ChargePrecedence ==
    outcome.op = "charge" => outcome.value = ExpectedCharge

\* the characters a separator is made of
SepChars == {":", " ", "-"}

RECURSIVE Separated(_, _)
\* str is the items in order, a non-empty separator before each of them
Separated(str, items) ==
    IF Len(items) = 0 THEN Len(str) = 0
    ELSE \E i \in 1..Len(str) :
            /\ \A j \in 1..i : str[j] \in SepChars
            /\ i + Len(items[1]) <= Len(str)
            /\ SubSeq(str, i + 1, i + Len(items[1])) = items[1]
            /\ Separated(SubSeq(str, i + Len(items[1]) + 1, Len(str)),
                         Tail(items))

\* C6: repr(site) is the name, then the representations of the parent sites in
\* list order, with a separator between the name and the first parent and
\* between each two consecutive parents.
C6_ReprSeparated ==
    outcome.op = "repr"
        => /\ Len(outcome.value) >= Len(name)
           /\ SubSeq(outcome.value, 1, Len(name)) = name
           /\ Separated(SubSeq(outcome.value, Len(name) + 1, Len(outcome.value)),
                        [k \in 1..Len(parents) |-> AtomRepr(parents[k])])

\* C8: the parent-site sequence the site stores is the one most recently
\* assigned as a whole (empty when none was), whatever a caller does to the
\* value the parent_sites accessor returned.
C8_StoredIsAssigned == parents = assigned

====
